---- MODULE Spec2Model ----
(***************************************************************************)
(* Timepad: a notebook of timestamped text files.                          *)
(* Model of src/timepad/__main__.py: the entry codec, the directory        *)
(* resolver, the query resolver with its selection prompt, and the entry   *)
(* operations.                                                            *)
(*                                                                         *)
(* Text is modelled as sequences of one-character strings, so that         *)
(* formatting, parsing, slicing, case folding and substring search are     *)
(* computed character by character as the code computes them.              *)
(***************************************************************************)
EXTENDS Integers, Sequences, FiniteSets, TLC

VARIABLES
    \* ---- codec harness (one encode/decode round) ----
    c_pc,        \* "start" | "encoded" | "decoded"
    c_ts,        \* the timestamp handed to _make_filename
    c_subject,   \* the subject handed to _make_filename
    c_name,      \* the filename _make_filename returned
    c_entry,     \* what parse_entry returned for c_name
    \* ---- directory resolver ----
    environ,     \* os.environ restricted to the variables that are read
    dot,         \* what CWD/.timepad is on disk: "absent" | "file" | "dir"
    d_call,      \* the last call: its arguments and the disk state before it
    d_result,    \* outcome of the last call
    \* ---- notebook directory and the command being run ----
    baseExists,  \* whether the resolved notebook directory exists
    files,       \* the notebook directory: file name -> file content
    pc,          \* "idle" | "prompt" (blocked in the selection prompt)
    stdin,       \* the line the user typed at the prompt, not yet read
    last,        \* record of the command in progress or just finished
    cwdFiles     \* the regular files of the working directory: name -> content

codecVars == <<c_pc, c_ts, c_subject, c_name, c_entry>>
dirVars   == <<environ, dot, d_call, d_result>>
shellVars == <<baseExists, files, pc, stdin, last, cwdFiles>>
vars      == <<codecVars, dirVars, shellVars>>

\* Python's None where a record (entry, datetime, call) is expected
None == [none |-> TRUE]

\* Python's None where a string is expected (no string of characters equals it)
NoneStr == <<"None">>

\* --------------------------------------------------------------------------
\* Bounds of the model
\* --------------------------------------------------------------------------
MaxSubjectLen == 2

\* most files the notebook directory holds
MaxFiles == 2

\* most commands of one session that ask before they act
MaxCommands == 2

\* --------------------------------------------------------------------------
\* Characters and strings
\* --------------------------------------------------------------------------
Digits == <<"0", "1", "2", "3", "4", "5", "6", "7", "8", "9">>

DigitSet == {Digits[i] : i \in 1..10}

IsDigit(c) == c \in DigitSet

DigitValues == [c \in DigitSet |-> (CHOOSE i \in 1..10 : Digits[i] = c) - 1]

DigitVal(c) == DigitValues[c]

DigitChar(n) == Digits[n + 1]

Upper == <<"A", "B", "C", "F", "I", "L", "Q", "S", "T", "X">>
LowerOf == <<"a", "b", "c", "f", "i", "l", "q", "s", "t", "x">>

UpperSet == {Upper[i] : i \in 1..Len(Upper)}

LowerMap == [c \in UpperSet |-> LowerOf[CHOOSE i \in 1..Len(Upper) : Upper[i] = c]]

\* str.lower() on one character
LowerChar(c) == IF c \in UpperSet THEN LowerMap[c] ELSE c

\* str.lower()
Lower(s) == [i \in 1..Len(s) |-> LowerChar(s[i])]

\* str.endswith(suffix)
EndsWith(s, suffix) ==
    /\ Len(s) >= Len(suffix)
    /\ SubSeq(s, Len(s) - Len(suffix) + 1, Len(s)) = suffix

\* the Python test  sub in s
Contains(s, sub) ==
    \E i \in 0..(Len(s) - Len(sub)) : SubSeq(s, i + 1, i + Len(sub)) = sub

Pad2(n) == <<DigitChar(n \div 10), DigitChar(n % 10)>>

Pad4(n) == <<DigitChar(n \div 1000), DigitChar((n \div 100) % 10),
             DigitChar((n \div 10) % 10), DigitChar(n % 10)>>

Num2(s, i) == DigitVal(s[i]) * 10 + DigitVal(s[i + 1])

Num4(s, i) == DigitVal(s[i]) * 1000 + DigitVal(s[i + 1]) * 100
              + DigitVal(s[i + 2]) * 10 + DigitVal(s[i + 3])

\* --------------------------------------------------------------------------
\* Timestamps (datetime with second precision)
\* --------------------------------------------------------------------------
FILENAME_DT_LEN == 19

FILENAME_DT_FORMAT == "%Y-%m-%d %H-%M-%S"
DISPLAY_DT_FORMAT == "%Y-%m-%d %H:%M:%S"

\* the character the layout puts between hour, minute and second
TimeSep(fmt) == IF fmt = FILENAME_DT_FORMAT THEN "-" ELSE ":"

IsLeap(y) == (y % 4 = 0 /\ y % 100 # 0) \/ y % 400 = 0

DaysIn(y, m) ==
    IF m = 2 THEN (IF IsLeap(y) THEN 29 ELSE 28)
    ELSE IF m \in {4, 6, 9, 11} THEN 30 ELSE 31

\* the field ranges datetime's constructor accepts
ValidDt(y, mo, d, h, mi, s) ==
    /\ y \in 1..9999
    /\ mo \in 1..12
    /\ d \in 1..DaysIn(y, mo)
    /\ h \in 0..23
    /\ mi \in 0..59
    /\ s \in 0..59

\* datetime.strftime for the two layouts (four-digit years)
strftime(dt, fmt) ==
    Pad4(dt.Y) \o <<"-">> \o Pad2(dt.Mo) \o <<"-">> \o Pad2(dt.D) \o <<" ">>
    \o Pad2(dt.h) \o <<TimeSep(fmt)>> \o Pad2(dt.mi) \o <<TimeSep(fmt)>>
    \o Pad2(dt.s)

\* datetime.strptime for the two layouts, on zero-padded fixed-width text;
\* None stands for ValueError.  (The library also accepts fields that are
\* not zero-padded; no name in this model has such fields.)
strptime(s, fmt) ==
    IF /\ Len(s) = FILENAME_DT_LEN
       /\ \A i \in {1, 2, 3, 4, 6, 7, 9, 10, 12, 13, 15, 16, 18, 19} : IsDigit(s[i])
       /\ s[5] = "-" /\ s[8] = "-" /\ s[11] = " "
       /\ s[14] = TimeSep(fmt) /\ s[17] = TimeSep(fmt)
       /\ ValidDt(Num4(s, 1), Num2(s, 6), Num2(s, 9),
                  Num2(s, 12), Num2(s, 15), Num2(s, 18))
    THEN [Y |-> Num4(s, 1), Mo |-> Num2(s, 6), D |-> Num2(s, 9),
          h |-> Num2(s, 12), mi |-> Num2(s, 15), s |-> Num2(s, 18)]
    ELSE None

\* --------------------------------------------------------------------------
\* Paths inside one directory: the directory and the base name
\* --------------------------------------------------------------------------
join(dir, name) == [dir |-> dir, name |-> name]

basename(path) == path.name

TXT == <<".", "t", "x", "t">>

\* --------------------------------------------------------------------------
\* Entry codec
\* --------------------------------------------------------------------------
make_filename(ts, subject) ==
    LET base == strftime(ts, FILENAME_DT_FORMAT)
    IN  IF subject # NoneStr /\ subject # <<>>
        THEN base \o <<" ">> \o subject \o TXT
        ELSE base \o TXT

parse_entry(path) ==
    LET name == basename(path)
        dt_str == SubSeq(name, 1, FILENAME_DT_LEN)
        dt == IF strptime(dt_str, FILENAME_DT_FORMAT) # None
              THEN strptime(dt_str, FILENAME_DT_FORMAT)
              ELSE strptime(dt_str, DISPLAY_DT_FORMAT)
    IN  IF ~EndsWith(Lower(name), TXT) THEN None
        ELSE IF Len(name) < FILENAME_DT_LEN + 5 THEN None
        ELSE IF dt = None THEN None
        ELSE [path |-> path, dt |-> dt,
              subject |-> SubSeq(name, FILENAME_DT_LEN + 2, Len(name) - 4)]

\* --------------------------------------------------------------------------
\* Codec harness: encode one (timestamp, subject), then decode the result
\* --------------------------------------------------------------------------
Years == {2023, 2024}
Months == {1, 2, 12}
Days == {1, 29, 31}
Hours == {0, 9, 23}
Minutes == {0, 59}
Seconds == {0, 59}

Timestamps ==
    {t \in [Y : Years, Mo : Months, D : Days, h : Hours, mi : Minutes, s : Seconds] :
        ValidDt(t.Y, t.Mo, t.D, t.h, t.mi, t.s)}

\* subject characters: no path separator
SubjectChars == {"A", "b", " ", ":", "."}

SeqsUpTo(S, n) == UNION {[1..k -> S] : k \in 0..n}

Subjects == SeqsUpTo(SubjectChars, MaxSubjectLen)

CodecDir == "nb"

\* the notebook part at rest: an empty, existing directory and no command
ShellIdle ==
    /\ baseExists = TRUE
    /\ files = [n \in {} |-> <<>>]
    /\ pc = "idle"
    /\ stdin = NoneStr
    /\ last = None
    /\ cwdFiles = [n \in {} |-> <<>>]

CodecInit ==
    /\ c_pc = "start"
    /\ c_ts \in Timestamps
    /\ c_subject \in Subjects
    /\ c_name = NoneStr
    /\ c_entry = None

Encode ==
    /\ c_pc = "start"
    /\ c_name' = make_filename(c_ts, c_subject)
    /\ c_pc' = "encoded"
    /\ UNCHANGED <<c_ts, c_subject, c_entry>>

Decode ==
    /\ c_pc = "encoded"
    /\ c_entry' = parse_entry(join(CodecDir, c_name))
    /\ c_pc' = "decoded"
    /\ UNCHANGED <<c_ts, c_subject, c_name>>

\* --------------------------------------------------------------------------
\* Directory paths: absolute or relative, a sequence of components.
\* The empty string is the relative path without components.
\* --------------------------------------------------------------------------
Path(abs, parts) == [abs |-> abs, parts |-> parts]

EmptyStr == Path(FALSE, <<>>)

CWD == Path(TRUE, <<"w">>)

HOME == Path(TRUE, <<"home", "u">>)

\* truth value of an Optional[str]
Truthy(s) == s # None /\ s # EmptyStr

\* the Python expression  a or b
Or(a, b) == IF Truthy(a) THEN a ELSE b

\* os.getcwd()
getcwd == CWD

\* os.path.join(directory, relative name)
joinpath(dir, name) == Path(dir.abs, dir.parts \o <<name>>)

\* os.path.expandvars: a leading $HOME is replaced by its value
expandvars(p) ==
    IF ~p.abs /\ p.parts # <<>> /\ Head(p.parts) = "$HOME"
    THEN Path(TRUE, HOME.parts \o Tail(p.parts))
    ELSE p

\* os.path.expanduser: a leading ~ is replaced by the home directory
expanduser(p) ==
    IF ~p.abs /\ p.parts # <<>> /\ Head(p.parts) = "~"
    THEN Path(TRUE, HOME.parts \o Tail(p.parts))
    ELSE p

RECURSIVE NormParts(_, _)
\* os.path.normpath on the components of an absolute path
NormParts(done, rest) ==
    IF rest = <<>> THEN done
    ELSE IF Head(rest) = "." THEN NormParts(done, Tail(rest))
    ELSE IF Head(rest) = ".."
         THEN NormParts(IF done = <<>> THEN done
                        ELSE SubSeq(done, 1, Len(done) - 1), Tail(rest))
    ELSE NormParts(Append(done, Head(rest)), Tail(rest))

\* os.path.abspath
abspath(p) ==
    IF p.abs THEN Path(TRUE, NormParts(<<>>, p.parts))
    ELSE Path(TRUE, NormParts(<<>>, getcwd.parts \o p.parts))

\* os.path.isdir(CWD/.timepad)
DotIsDir == dot = "dir"

DotPath == joinpath(getcwd, ".timepad")

\* --------------------------------------------------------------------------
\* Directory resolver.  A call's outcome is a record: kind "ok" with the
\* returned value, or the exception raised; dot is CWD/.timepad afterwards.
\* --------------------------------------------------------------------------
Raise(kind, dotAfter) == [kind |-> kind, dot |-> dotAfter]

\* _init_timepad_dir(check_env, migrate=False): returns the tuple
\* (path, was_created, migrated_files)
init_timepad_dir(check_env) ==
    IF check_env /\ Truthy(Or(environ.TIMEPAD, environ.LOG_DIR))
    THEN Raise("UsageError", dot)
    ELSE IF DotIsDir
    THEN [kind |-> "ok", ret |-> <<DotPath, FALSE, <<>> >>, dot |-> dot]
    ELSE IF dot = "file"
    THEN Raise("FileExistsError", dot)      \* os.makedirs on a regular file
    ELSE [kind |-> "ok", ret |-> <<DotPath, TRUE, <<>> >>, dot |-> "dir"]

\* the assignment  chosen, _ = <call>
Unpack2(r) ==
    IF r.kind # "ok" THEN r
    ELSE IF Len(r.ret) # 2 THEN Raise("ValueError", r.dot)
    ELSE [kind |-> "ok", chosen |-> r.ret[1], dot |-> r.dot]

Chosen(p) == [kind |-> "ok", chosen |-> p, dot |-> dot]

\* the last line of resolve_base_dir
Finish(r) ==
    IF r.kind # "ok" THEN r
    ELSE [kind |-> "ok",
          path |-> abspath(expanduser(expandvars(r.chosen))),
          dot |-> r.dot]

resolve_base_dir_envswap(dir_opt, ignore_env, create_local) ==
    Finish(
        IF Truthy(dir_opt) THEN Chosen(dir_opt)
        ELSE IF ignore_env
        THEN (IF create_local THEN Unpack2(init_timepad_dir(FALSE))
              ELSE Chosen(getcwd))
        ELSE LET env == Or(environ.LOG_DIR, environ.TIMEPAD)
             IN  IF Truthy(env) THEN Chosen(env)
                 ELSE IF create_local THEN Unpack2(init_timepad_dir(FALSE))
                 ELSE Chosen(IF DotIsDir THEN DotPath ELSE getcwd))

resolve_base_dir(dir_opt, ignore_env, create_local) ==
    Finish(
        IF Truthy(dir_opt) THEN Chosen(dir_opt)
        ELSE IF ignore_env
        THEN (IF create_local THEN Unpack2(init_timepad_dir(FALSE))
              ELSE Chosen(getcwd))
        ELSE LET env == Or(environ.TIMEPAD, environ.LOG_DIR)
             IN  IF Truthy(env) THEN Chosen(env)
                 ELSE IF create_local THEN Unpack2(init_timepad_dir(FALSE))
                 ELSE Chosen(IF DotIsDir THEN DotPath ELSE getcwd))

cli_nodircheck(dir_opt, cwd, create_local) ==
    IF create_local /\ ~cwd /\ Truthy(Or(environ.TIMEPAD, environ.LOG_DIR))
    THEN Raise("UsageError", dot)
    ELSE resolve_base_dir(dir_opt, cwd, create_local)

\* the group callback: conflict checks, then resolution
cli(dir_opt, cwd, create_local) ==
    IF create_local /\ Truthy(dir_opt)
    THEN Raise("UsageError", dot)
    ELSE IF create_local /\ ~cwd /\ Truthy(Or(environ.TIMEPAD, environ.LOG_DIR))
    THEN Raise("UsageError", dot)
    ELSE resolve_base_dir(dir_opt, cwd, create_local)

\* --------------------------------------------------------------------------
\* Directory-resolver harness: any environment, any state of CWD/.timepad,
\* calls of resolve_base_dir and of the command line with any arguments
\* --------------------------------------------------------------------------
PathInputs ==
    { Path(FALSE, <<"nb">>), Path(TRUE, <<"srv", "nb">>),
      Path(FALSE, <<"~", "nb">>), Path(FALSE, <<"$HOME", "nb">>),
      Path(FALSE, <<".", "nb", "..", "log">>) }

OptPaths == {None, EmptyStr} \cup PathInputs

DirInit ==
    /\ environ \in [TIMEPAD : OptPaths, LOG_DIR : OptPaths]
    /\ dot \in {"absent", "file", "dir"}
    /\ d_call = None
    /\ d_result = None

Call(fn, dir_opt, ignore_env, create_local) ==
    [fn |-> fn, dir_opt |-> dir_opt, ignore_env |-> ignore_env,
     create_local |-> create_local, dot_before |-> dot]

\* a direct call of resolve_base_dir
ResolveBaseDir ==
    \E dir_opt \in OptPaths, ignore_env \in BOOLEAN, create_local \in BOOLEAN :
        LET r == resolve_base_dir(dir_opt, ignore_env, create_local)
        IN  /\ d_call' = Call("resolve_base_dir", dir_opt, ignore_env, create_local)
            /\ d_result' = r
            /\ dot' = r.dot
            /\ UNCHANGED environ

\* one invocation of the program: timepad [--dir D] [-c] [-n] ...
Cli ==
    \E dir_opt \in OptPaths, cwd \in BOOLEAN, create_local \in BOOLEAN :
        LET r == cli(dir_opt, cwd, create_local)
        IN  /\ d_call' = Call("cli", dir_opt, cwd, create_local)
            /\ d_result' = r
            /\ dot' = r.dot
            /\ UNCHANGED environ

CodecIdle ==
    /\ c_pc = "idle"
    /\ c_ts = None
    /\ c_subject = <<>>
    /\ c_name = NoneStr
    /\ c_entry = None

DirNext ==
    \/ ResolveBaseDir /\ UNCHANGED <<codecVars, shellVars>>
    \/ Cli /\ UNCHANGED <<codecVars, shellVars>>

InitDir == DirInit /\ CodecIdle /\ ShellIdle

SpecDir == InitDir /\ [][DirNext]_vars

EnvSet == Truthy(environ.TIMEPAD) \/ Truthy(environ.LOG_DIR)

\* the sources of the notebook directory in rank order, each with whether it
\* is available for the call
Sources(c) ==
    << [avail |-> Truthy(c.dir_opt), path |-> c.dir_opt],
       [avail |-> c.ignore_env, path |-> getcwd],
       [avail |-> Truthy(environ.TIMEPAD), path |-> environ.TIMEPAD],
       [avail |-> Truthy(environ.LOG_DIR), path |-> environ.LOG_DIR],
       [avail |-> c.dot_before = "dir", path |-> DotPath],
       [avail |-> TRUE, path |-> getcwd] >>

HighestRanked(c) ==
    Sources(c)[CHOOSE i \in 1..6 :
        /\ Sources(c)[i].avail
        /\ \A j \in 1..(i - 1) : ~Sources(c)[j].avail].path

IsResolveCall == d_call # None /\ d_call.fn = "resolve_base_dir"

IsCliCall == d_call # None /\ d_call.fn = "cli"

\* C2: with create-local off, resolve_base_dir returns (in absolute, expanded
\* form) the highest-ranked available source in the order explicit directory
\* > CWD when ignore-environment is set > TIMEPAD > LOG_DIR > CWD/.timepad if
\* it exists > CWD, an empty-valued variable or option counting as unset.
C2_Precedence ==
    (IsResolveCall /\ ~d_call.create_local) =>
        /\ d_result.kind = "ok"
        /\ d_result.path = abspath(expanduser(expandvars(HighestRanked(d_call))))

\* both variables set and nothing ranked above them: TIMEPAD was returned
C2_Witness ==
    /\ IsResolveCall /\ ~d_call.create_local
    /\ ~Truthy(d_call.dir_opt) /\ ~d_call.ignore_env
    /\ Truthy(environ.TIMEPAD) /\ Truthy(environ.LOG_DIR)
    /\ environ.TIMEPAD # environ.LOG_DIR
    /\ d_call.dot_before = "dir"
    /\ d_result.kind = "ok"
    /\ d_result.path = abspath(expanduser(expandvars(environ.TIMEPAD)))

\* C3: with create-local set, no explicit directory, and ignore-environment
\* set or neither variable set, resolve_base_dir completes normally, returns
\* the absolute path of CWD/.timepad, and that directory exists afterwards.
C3_CreateLocal ==
    (/\ IsResolveCall /\ d_call.create_local /\ ~Truthy(d_call.dir_opt)
     /\ (d_call.ignore_env \/ ~EnvSet))
    =>  /\ d_result.kind = "ok"
        /\ d_result.path = abspath(DotPath)
        /\ dot = "dir"

\* C4: an invocation with create-local set fails with a usage error and
\* creates no directory or file whenever an explicit directory is given, or
\* TIMEPAD or LOG_DIR is set and ignore-environment is not.
C4_Conflict ==
    (/\ IsCliCall /\ d_call.create_local
     /\ (Truthy(d_call.dir_opt) \/ (EnvSet /\ ~d_call.ignore_env)))
    =>  /\ d_result.kind = "UsageError"
        /\ dot = d_call.dot_before

\* explicit directory with ignore-environment and create-local, nothing on
\* disk before: usage error, still nothing on disk
C4_Witness ==
    /\ IsCliCall /\ d_call.create_local /\ d_call.ignore_env
    /\ Truthy(d_call.dir_opt)
    /\ d_call.dot_before = "absent"
    /\ d_result.kind = "UsageError"
    /\ dot = "absent"

DirIdle ==
    /\ environ = [TIMEPAD |-> None, LOG_DIR |-> None]
    /\ dot = "absent"
    /\ d_call = None
    /\ d_result = None

CodecNext ==
    \/ Encode /\ UNCHANGED <<dirVars, shellVars>>
    \/ Decode /\ UNCHANGED <<dirVars, shellVars>>

InitCodec == CodecInit /\ DirIdle /\ ShellIdle

SpecCodec == InitCodec /\ [][CodecNext]_vars

\* C1: for every second-precision timestamp t and every subject s without a
\* path separator, the empty subject included, decoding encode(t, s) yields
\* an entry with exactly timestamp t and subject s, never "not an entry".
C1_RoundTrip ==
    c_pc = "decoded" =>
        /\ c_entry # None
        /\ c_entry.dt = c_ts
        /\ c_entry.subject = c_subject

\* --------------------------------------------------------------------------
\* More string operations
\* --------------------------------------------------------------------------
RECURSIVE LStrip(_)
LStrip(s) == IF s # <<>> /\ Head(s) = " " THEN LStrip(Tail(s)) ELSE s

RECURSIVE RStrip(_)
RStrip(s) ==
    IF s # <<>> /\ s[Len(s)] = " " THEN RStrip(SubSeq(s, 1, Len(s) - 1)) ELSE s

\* str.strip()
Strip(s) == RStrip(LStrip(s))

\* str.isdigit()
isdigit(s) == s # <<>> /\ \A i \in 1..Len(s) : IsDigit(s[i])

RECURSIVE int(_)
\* int() of a string of decimal digits
int(s) ==
    IF s = <<>> THEN 0
    ELSE int(SubSeq(s, 1, Len(s) - 1)) * 10 + DigitVal(s[Len(s)])

\* the character at position i, or "" past either end
At(s, i) == IF i \in 1..Len(s) THEN s[i] ELSE ""

\* \w : letters, digits and the underscore
NonWord == {"", " ", "-", ":", ".", "#", "\n"}

IsWord(c) == c \notin NonWord

\* str.replace(":", "-")
ReplaceColons(s) == [i \in 1..Len(s) |-> IF s[i] = ":" THEN "-" ELSE s[i]]

\* length of the match of  \d{2}:\d{2}(?::\d{2})?  at position i, 0 if none
MatchTime(s, i) ==
    IF /\ IsDigit(At(s, i)) /\ IsDigit(At(s, i + 1)) /\ At(s, i + 2) = ":"
       /\ IsDigit(At(s, i + 3)) /\ IsDigit(At(s, i + 4))
    THEN IF /\ At(s, i + 5) = ":"
            /\ IsDigit(At(s, i + 6)) /\ IsDigit(At(s, i + 7))
         THEN 8 ELSE 5
    ELSE 0

\* whether  \b\d{4}-\d{2}-\d{2}\b  matches at position i
MatchDate(s, i) ==
    /\ ~IsWord(At(s, i - 1))
    /\ \A k \in {0, 1, 2, 3, 5, 6, 8, 9} : IsDigit(At(s, i + k))
    /\ At(s, i + 4) = "-" /\ At(s, i + 7) = "-"
    /\ ~IsWord(At(s, i + 10))

RECURSIVE Spaces(_, _)
\* length of the run of whitespace starting at position i
Spaces(s, i) == IF At(s, i) = " " THEN 1 + Spaces(s, i + 1) ELSE 0

RECURSIVE SubDateTime(_, _)
\* re.sub of pattern (a), date then whitespace then time, from position i on
SubDateTime(s, i) ==
    IF i > Len(s) THEN <<>>
    ELSE LET sp == Spaces(s, i + 10)
             tl == MatchTime(s, i + 10 + sp)
         IN  IF MatchDate(s, i) /\ sp >= 1 /\ tl > 0
             THEN SubSeq(s, i, i + 9) \o <<" ">>
                  \o ReplaceColons(SubSeq(s, i + 10 + sp, i + 10 + sp + tl - 1))
                  \o SubDateTime(s, i + 10 + sp + tl)
             ELSE <<s[i]>> \o SubDateTime(s, i + 1)

\* re.sub of pattern (b), a time at the start of the input
SubLeadingTime(s) ==
    LET sp == Spaces(s, 1)
        tl == MatchTime(s, sp + 1)
    IN  IF tl > 0
        THEN ReplaceColons(SubSeq(s, sp + 1, sp + tl)) \o SubSeq(s, sp + tl + 1, Len(s))
        ELSE s

normalize_query_time_to_hyphens(q) == SubLeadingTime(SubDateTime(q, 1))

\* --------------------------------------------------------------------------
\* Evaluation helper: F applied to the value of e, with e evaluated once
\* --------------------------------------------------------------------------
Bind(e, F(_)) == CHOOSE y \in {F(x) : x \in {e}} : TRUE

\* --------------------------------------------------------------------------
\* The notebook directory and the inputs of the commands
\* --------------------------------------------------------------------------
BASE == "nb"      \* obj["base_dir"], the resolved notebook directory

T1 == [Y |-> 2024, Mo |-> 1, D |-> 1, h |-> 10, mi |-> 0, s |-> 0]
T2 == [Y |-> 2024, Mo |-> 1, D |-> 2, h |-> 9, mi |-> 0, s |-> 0]
T3 == [Y |-> 2024, Mo |-> 1, D |-> 3, h |-> 8, mi |-> 0, s |-> 0]

\* values of the clock and of entry timestamps
ShellTimes == {T1, T2, T3}

Ab == <<"A", "b">>

\* a name in the display layout (time written with colons)
DisplayName(ts, subject) ==
    strftime(ts, DISPLAY_DT_FORMAT) \o <<" ">> \o subject \o TXT

NotesTxt == <<"n", "o", "t", "e", "s", ".", "t", "x", "t">>

\* files that can be in the directory before the first command
InitialNames ==
    {make_filename(t, subj) : t \in ShellTimes, subj \in {<<>>, Ab}}
    \cup {DisplayName(T2, Ab), NotesTxt}

UserText == <<"n", "o", "t", "e", "\n">>

\* --at values: absent, well-formed, malformed
WhenInputs == {NoneStr, strftime(T1, DISPLAY_DT_FORMAT),
               strftime(T1, FILENAME_DT_FORMAT)}

SubjectInputs == {<<>>, <<" ", "A", "b", " ">>}

FIRST == <<"f", "i", "r", "s", "t">>
LAST == <<"l", "a", "s", "t">>

Queries ==
    { FIRST, <<" ", "L", "A", "S", "T", " ">>, <<>>, <<"a", "b">>,
      <<"0", "9", ":", "0", "0">>,
      strftime(T1, DISPLAY_DT_FORMAT), strftime(T2, DISPLAY_DT_FORMAT) }

PromptLines ==
    { <<>>, <<"q">>, <<" ", "Q", " ">>, <<"q", "u", "i", "t">>,
      <<"c", "a", "n", "c", "e", "l">>, <<"c">>, <<"x">>, <<"0">>,
      <<"0", "0">>, <<"1">>, <<"2">>, <<"3">>, <<"9">>, <<" ", "0", "2">>,
      <<"a", "b">>, <<" ">> }

\* os.path.splitext: split at the last dot that has a non-dot before it
splitext(name) ==
    Bind({i \in 1..Len(name) :
             name[i] = "." /\ \E j \in 1..(i - 1) : name[j] # "."}, LAMBDA dots :
        IF dots = {} THEN <<name, <<>>>>
        ELSE Bind(CHOOSE k \in dots : \A d \in dots : d <= k, LAMBDA k :
                 <<SubSeq(name, 1, k - 1), SubSeq(name, k, Len(name))>>))

BAK == <<".", "b", "a", "k">>

\* the name bak gives the copy of the file
bak_name(filename) == splitext(filename)[1] \o BAK

\* a subject typed at the rename prompt
Cd == <<"C", "d">>

\* the name an outside program moves a file to
Gone == <<"g", "o", "n", "e">>

\* every name an entry file of the model can have
EntryNames == InitialNames \cup {make_filename(t, Cd) : t \in ShellTimes}

\* every file name of the model
KnownNames == EntryNames \cup {bak_name(n) : n \in EntryNames} \cup {Gone}

\* --------------------------------------------------------------------------
\* Entry store
\* --------------------------------------------------------------------------
\* parse_entry of every name the directory can hold, computed once
ParseOf == [n \in KnownNames |-> parse_entry(join(BASE, n))]

\* datetime comparison
DtKey(dt) == <<dt.Y, dt.Mo, dt.D, dt.h, dt.mi, dt.s>>

DtLess(a, b) ==
    \E k \in 1..6 : /\ DtKey(a)[k] < DtKey(b)[k]
                    /\ \A j \in 1..(k - 1) : DtKey(a)[j] = DtKey(b)[j]

\* all orders in which a directory listing can produce the names in S
RECURSIVE Perms(_)
Perms(S) ==
    IF S = {} THEN {<<>>}
    ELSE UNION {{<<x>> \o p : p \in Perms(S \ {x})} : x \in S}

\* the names glob("*.txt") matches in the notebook directory
GlobNames == {n \in DOMAIN files : EndsWith(n, TXT)}

\* scan_entries, given the list glob produced: keep what parse_entry accepts
scan_entries(globbed) ==
    SelectSeq([i \in 1..Len(globbed) |-> ParseOf[globbed[i]]],
              LAMBDA e : e # None)

\* whether es[j] comes before es[i] in the sorted list: it sorts before it,
\* or has the same key and came earlier (sorted() is stable, also reversed)
Precedes(es, j, i, ascending) ==
    \/ IF ascending THEN DtLess(es[j].dt, es[i].dt)
                    ELSE DtLess(es[i].dt, es[j].dt)
    \/ es[j].dt = es[i].dt /\ j < i

sort_entries_by_reversal(entries, ascending) ==
    Bind(entries, LAMBDA es :
        [p \in 1..Len(es) |->
            es[CHOOSE i \in 1..Len(es) :
                Cardinality({j \in 1..Len(es) :
                    IF ascending THEN Precedes(es, j, i, TRUE)
                    ELSE Precedes(es, i, j, TRUE)}) = p - 1]])

\* sorted(entries, key=lambda e: e.dt, reverse=not ascending)
sort_entries(entries, ascending) ==
    Bind(entries, LAMBDA es :
        [p \in 1..Len(es) |->
            es[CHOOSE i \in 1..Len(es) :
                Cardinality({j \in 1..Len(es) : Precedes(es, j, i, ascending)})
                    = p - 1]])

\* --------------------------------------------------------------------------
\* Query resolver.  A resolution either returns (an entry or None) or blocks
\* in the selection prompt with the menu it printed.
\* --------------------------------------------------------------------------
Return(e) == [kind |-> "return", ret |-> e]

Menu(m) == [kind |-> "prompt", menu |-> m]

pick_from_matches_unsorted(matches) ==
    Bind(matches, LAMBDA m :
        IF m = <<>> THEN Return(None)
        ELSE IF Len(m) = 1 THEN Return(m[1])
        ELSE Menu(m))

\* pick_from_matches up to its first Prompt.ask
pick_from_matches(matches) ==
    Bind(matches, LAMBDA m :
        IF m = <<>> THEN Return(None)
        ELSE IF Len(m) = 1 THEN Return(m[1])
        ELSE Menu(sort_entries(m, TRUE)))

\* Prompt.ask(..., default): an empty line gives the default
PromptAsk(line, default) == IF line = <<>> THEN default ELSE Strip(line)

CancelWords == {<<"q">>, <<"q", "u", "i", "t">>,
                <<"c", "a", "n", "c", "e", "l">>, <<"c">>, <<"x">>}

prompt_loop_clamp(sorted_matches, line) ==
    Bind(Strip(PromptAsk(line, <<"q">>)), LAMBDA choice :
        IF Lower(choice) \in CancelWords \/ choice = <<"0">> THEN Return(None)
        ELSE IF ~isdigit(choice) THEN [kind |-> "again"]
        ELSE IF 1 <= int(choice) /\ int(choice) <= Len(sorted_matches)
             THEN Return(sorted_matches[int(choice)])
        ELSE Return(sorted_matches[Len(sorted_matches)]))

\* one pass of the while-loop of pick_from_matches on the line typed
prompt_loop(sorted_matches, line) ==
    Bind(Strip(PromptAsk(line, <<"q">>)), LAMBDA choice :
        IF Lower(choice) \in CancelWords \/ choice = <<"0">> THEN Return(None)
        ELSE IF ~isdigit(choice) THEN [kind |-> "again"]
        ELSE IF 1 <= int(choice) /\ int(choice) <= Len(sorted_matches)
             THEN Return(sorted_matches[int(choice)])
        ELSE [kind |-> "again"])

query_matches_casesens(query, filename) ==
    Contains(filename, Lower(normalize_query_time_to_hyphens(query)))

\* the test of the list comprehension: normalized query, lower-cased, is a
\* substring of the lower-cased filename
query_matches(query, filename) ==
    Contains(Lower(filename), Lower(normalize_query_time_to_hyphens(query)))

\* query_matches for every query and name of the model, computed once
MatchOf == [q \in Queries |-> {n \in KnownNames : query_matches(q, n)}]

first_last_unsorted(entries, query_lower) ==
    Bind(entries, LAMBDA es :
        IF es = <<>> THEN Return(None)
        ELSE IF query_lower = FIRST THEN Return(es[1])
        ELSE Return(es[Len(es)]))

\* query.lower().strip() for every query of the model, computed once
KeywordOf == [q \in Queries |-> Strip(Lower(q))]

\* the keyword branch of resolve_by_query on the scanned entries
first_last(entries, query_lower) ==
    Bind(sort_entries(entries, TRUE), LAMBDA sorted_entries :
        IF sorted_entries = <<>> THEN Return(None)
        ELSE IF query_lower = FIRST THEN Return(sorted_entries[1])
        ELSE Return(sorted_entries[Len(sorted_entries)]))

\* resolve_by_query up to its return or its first Prompt.ask; globbed is the
\* list of names the directory listing produced
resolve_by_query(globbed, query) ==
    IF KeywordOf[query] \in {FIRST, LAST}
    THEN first_last(scan_entries(globbed), KeywordOf[query])
    ELSE pick_from_matches(
             SelectSeq(scan_entries(globbed),
                       LAMBDA e : basename(e.path) \in MatchOf[query]))

\* --------------------------------------------------------------------------
\* Entry creation
\* --------------------------------------------------------------------------
username == <<"u">>     \* $USER

\* the two-line header of a new file
Header(ts) ==
    <<"#", " ">> \o strftime(ts, DISPLAY_DT_FORMAT) \o <<" ">> \o username
    \o <<"\n", "\n">>

\* the directory with file name holding content
Put(dir, name, content) ==
    [n \in DOMAIN dir \cup {name} |-> IF n = name THEN content ELSE dir[n]]

\* the timestamp and the file name _create_entry decides on; None when the
\* --at value does not parse
entry_target(when, subject, now) ==
    Bind(IF when # NoneStr /\ when # <<>>
         THEN strptime(when, DISPLAY_DT_FORMAT) ELSE now, LAMBDA ts :
        IF ts = None THEN None
        ELSE [ts |-> ts,
              filename |-> Bind(Strip(IF subject = NoneStr THEN <<>> ELSE subject),
                                LAMBDA subj : make_filename(ts, IF subj = <<>> THEN NoneStr ELSE subj)),
              header |-> Header(ts)])

\* entry_target for every input of the model, computed once
TargetOf ==
    [w \in WhenInputs |-> [s \in {Strip(x) : x \in SubjectInputs} |->
        [t \in ShellTimes |-> entry_target(w, s, t)]]]

create_entry_overwrite(when, subject, now) ==
    Bind(TargetOf[when][subject][now], LAMBDA t :
        IF t = None
        THEN [path |-> None, ts |-> None, files |-> files, wrote |-> FALSE]
        ELSE [path |-> join(BASE, t.filename), ts |-> t.ts,
              files |-> Put(files, t.filename, t.header), wrote |-> TRUE])

\* _create_entry after _ensure_dir: the returned (path, ts), the directory
\* afterwards, and whether the header was written
create_entry(when, subject, now) ==
    Bind(TargetOf[when][subject][now], LAMBDA t :
        IF t = None
        THEN [path |-> None, ts |-> None, files |-> files, wrote |-> FALSE]
        ELSE IF t.filename \in DOMAIN files
        THEN [path |-> join(BASE, t.filename), ts |-> t.ts, files |-> files,
              wrote |-> FALSE]
        ELSE [path |-> join(BASE, t.filename), ts |-> t.ts,
              files |-> Put(files, t.filename, t.header), wrote |-> TRUE])

\* --------------------------------------------------------------------------
\* The notebook: commands run one after another on one directory
\* --------------------------------------------------------------------------
ShellInit ==
    /\ \E S \in SUBSET InitialNames :
          /\ Cardinality(S) <= MaxFiles
          /\ files = [n \in S |-> UserText]
          /\ baseExists \in (IF S = {} THEN BOOLEAN ELSE {TRUE})
    /\ pc = "idle"
    /\ stdin = NoneStr
    /\ last = None
    /\ cwdFiles = [n \in {} |-> <<>>]

\* the record of a create command
Created(op, r, before, editor, exit) ==
    [op |-> op, path |-> r.path, ts |-> r.ts,
     existed |-> r.path # None /\ basename(r.path) \in DOMAIN files,
     before |-> before, wrote |-> r.wrote,
     reported |-> IF r.path # None THEN basename(r.path) ELSE NoneStr,
     editor |-> editor, exit |-> exit]

\* what the file at the returned path held before the command
Before(r) ==
    IF r.path # None /\ basename(r.path) \in DOMAIN files
    THEN files[basename(r.path)] ELSE NoneStr

\* the clock matters only without --at
ClockValues(when) == IF when = NoneStr THEN ShellTimes ELSE {T1}

\* new [--at WHEN] [subject]: create the entry, then open it in the editor;
\* a non-zero editor status becomes the exit status
cmd_new ==
    /\ pc = "idle"
    /\ \E when \in WhenInputs, subject \in SubjectInputs :
       \E now \in ClockValues(when) :
       \E r \in {create_entry(when, Strip(subject), now)} :
       \E rc \in (IF r.path # None THEN {0, 1} ELSE {0}) :
          /\ Cardinality(DOMAIN r.files) <= MaxFiles
          /\ baseExists' = TRUE
          /\ files' = r.files
          /\ last' = Created("new", r, Before(r), r.path, rc)
    /\ UNCHANGED <<pc, stdin>>

\* log [--at WHEN] [subject]: create the entry without opening it
cmd_log ==
    /\ pc = "idle"
    /\ \E when \in WhenInputs, subject \in SubjectInputs :
       \E now \in ClockValues(when) :
       \E r \in {create_entry(when, Strip(subject), now)} :
          /\ Cardinality(DOMAIN r.files) <= MaxFiles
          /\ baseExists' = TRUE
          /\ files' = r.files
          /\ last' = Created("log", r, Before(r), None, 0)
    /\ UNCHANGED <<pc, stdin>>

\* what cat writes for the entry resolve_by_query returned
CatOutput(e) == IF e = None THEN <<>> ELSE files[basename(e.path)]

\* cat <query>: resolve the query; print the file if no selection is needed,
\* otherwise print the menu and wait at the prompt
cmd_cat ==
    /\ pc = "idle"
    /\ \E listings \in {Perms(GlobNames)}, query \in Queries :
       \E r \in {resolve_by_query(globbed, query) : globbed \in listings} :
          /\ last' = [op |-> "cat", query |-> query, names |-> DOMAIN files,
                      prompted |-> r.kind = "prompt",
                      menu |-> IF r.kind = "prompt" THEN r.menu ELSE <<>>,
                      reprompted |-> FALSE, input |-> NoneStr,
                      ret |-> IF r.kind = "prompt" THEN None ELSE r.ret,
                      out |-> IF r.kind = "prompt" THEN <<>> ELSE CatOutput(r.ret),
                      done |-> r.kind # "prompt"]
          /\ pc' = IF r.kind = "prompt" THEN "prompt" ELSE "idle"
    /\ UNCHANGED <<baseExists, files, stdin>>

\* the user types a line at the selection prompt
user_types ==
    /\ pc = "prompt"
    /\ stdin = NoneStr
    /\ \E line \in PromptLines : stdin' = line
    /\ UNCHANGED <<baseExists, files, pc, last>>

\* one pass of the selection loop on the typed line, and on a selection or a
\* cancel the rest of the command
prompt_step ==
    /\ pc = "prompt"
    /\ stdin # NoneStr
    /\ \E r \in {prompt_loop(last.menu, stdin)} :
           IF r.kind = "again"
           THEN /\ last' = [last EXCEPT !.reprompted = TRUE]
                /\ pc' = "prompt"
           ELSE /\ last' = [last EXCEPT !.input = stdin, !.ret = r.ret,
                                        !.out = CatOutput(r.ret), !.done = TRUE]
                /\ pc' = "idle"
    /\ stdin' = NoneStr
    /\ UNCHANGED <<baseExists, files>>

Init == ShellInit /\ CodecIdle /\ DirIdle

Next ==
    \/ cmd_new /\ UNCHANGED <<codecVars, dirVars, cwdFiles>>
    \/ cmd_log /\ UNCHANGED <<codecVars, dirVars, cwdFiles>>
    \/ cmd_cat /\ UNCHANGED <<codecVars, dirVars, cwdFiles>>
    \/ user_types /\ UNCHANGED <<codecVars, dirVars, cwdFiles>>
    \/ prompt_step /\ UNCHANGED <<codecVars, dirVars, cwdFiles>>

Spec == Init /\ [][Next]_vars

\* the selection loop processes every line it is given
FairSpec == Spec /\ WF_vars(prompt_step /\ UNCHANGED <<codecVars, dirVars, cwdFiles>>)

\* --------------------------------------------------------------------------
\* Properties of the query resolver
\* --------------------------------------------------------------------------
IsCat == last # None /\ last.op = "cat"

IsKeyword(q) == Strip(Lower(q)) \in {FIRST, LAST}

Range(seq) == {seq[i] : i \in 1..Len(seq)}

\* the entries a scan of a directory holding the given names yields
Scanned(names) ==
    {parse_entry(join(BASE, n)) : n \in {m \in names : EndsWith(m, TXT)}}
    \ {None}

\* the scanned entries whose filename contains the normalized query,
\* letter case ignored
Candidates(q, names) ==
    {e \in Scanned(names) :
        \E i \in 0..(Len(basename(e.path))
                      - Len(normalize_query_time_to_hyphens(q))) :
            Lower(SubSeq(basename(e.path), i + 1,
                         i + Len(normalize_query_time_to_hyphens(q))))
                = Lower(normalize_query_time_to_hyphens(q))}

\* C5: for a query that is, trimmed and case-folded, exactly 'first' (resp.
\* 'last'), resolve_by_query returns without prompting an entry with the
\* minimum (resp. maximum) timestamp of the scanned entries, whatever the
\* scan order, and None when there are no entries.
C5_FirstLast ==
    (IsCat /\ IsKeyword(last.query)) =>
        /\ last.done /\ ~last.prompted
        /\ IF Scanned(last.names) = {} THEN last.ret = None
           ELSE /\ last.ret \in Scanned(last.names)
                /\ \A e \in Scanned(last.names) :
                      IF Strip(Lower(last.query)) = FIRST
                      THEN ~DtLess(e.dt, last.ret.dt)
                      ELSE ~DtLess(last.ret.dt, e.dt)

\* ' LAST ' on a directory with an older and a newer entry gave the newer
C5_Witness ==
    /\ IsCat /\ last.query = <<" ", "L", "A", "S", "T", " ">>
    /\ last.done /\ last.ret # None
    /\ \E e \in Scanned(last.names) : DtLess(e.dt, last.ret.dt)

\* C6: for a non-keyword query the candidates are exactly the scanned entries
\* whose filename contains the normalized query case-insensitively; with no
\* candidate the result is None, with exactly one it is that entry, both
\* without a prompt; the prompt appears only for several candidates.
C6_Substring ==
    (IsCat /\ ~IsKeyword(last.query)) =>
        \E c \in {Candidates(last.query, last.names)} :
            /\ c = {} => (last.done /\ last.ret = None /\ ~last.prompted)
            /\ Cardinality(c) = 1 => (last.done /\ last.ret \in c /\ ~last.prompted)
            /\ Cardinality(c) > 1 => (last.prompted /\ Range(last.menu) = c)

\* 'ab' matched the one entry named '... Ab.txt' next to another file
C6_Witness ==
    /\ IsCat /\ last.query = <<"a", "b">>
    /\ Cardinality(last.names) = 2
    /\ Cardinality(Candidates(last.query, last.names)) = 1
    /\ last.done /\ ~last.prompted
    /\ last.ret \in Candidates(last.query, last.names)

\* C7: when a query matches n > 1 entries (the empty query matches all
\* scanned entries), the menu lists exactly those n entries in ascending
\* timestamp order, and entering k with 1 <= k <= n returns the k-th of them.
C7_Menu ==
    (IsCat /\ last.prompted) =>
        /\ Len(last.menu) > 1
        /\ Len(last.menu) = Cardinality(Candidates(last.query, last.names))
        /\ Range(last.menu) = Candidates(last.query, last.names)
        /\ last.query = <<>> => Range(last.menu) = Scanned(last.names)
        /\ \A i, j \in 1..Len(last.menu) :
              i < j => ~DtLess(last.menu[j].dt, last.menu[i].dt)
        /\ \A k \in 1..Len(last.menu) :
              (last.done /\ last.input = <<DigitChar(k)>>) => last.ret = last.menu[k]

\* the empty query listed two entries, older first, and '2' chose the newer
C7_Witness ==
    /\ IsCat /\ last.prompted /\ last.done
    /\ last.query = <<>>
    /\ Len(last.menu) = 2
    /\ DtLess(last.menu[1].dt, last.menu[2].dt)
    /\ last.input = <<"2">>
    /\ last.ret = last.menu[2]

\* the typed line is a number k with 1 <= k <= n
InRange(line, n) ==
    /\ isdigit(Strip(line))
    /\ 1 <= int(Strip(line)) /\ int(Strip(line)) <= n

\* the loop ended on the line: a selection of the k-th entry, or a cancel
EndedOn(IsCancel(_)) ==
    \/ /\ InRange(last.input, Len(last.menu))
       /\ last.ret = last.menu[int(Strip(last.input))]
    \/ /\ IsCancel(last.input)
       /\ last.ret = None

\* the cancel inputs quit, cancel, q, x and 0
ListedCancel(line) ==
    Lower(Strip(line)) \in {<<"q", "u", "i", "t">>, <<"c", "a", "n", "c", "e", "l">>,
                            <<"q">>, <<"x">>, <<"0">>}

CodeCancel(line) ==
    \/ line = <<>>
    \/ Lower(Strip(line)) \in {<<"q", "u", "i", "t">>, <<"c", "a", "n", "c", "e", "l">>,
                               <<"q">>, <<"c">>, <<"x">>}
    \/ Strip(line) = <<"0">>

Terminating(line, n) == InRange(line, n) \/ CodeCancel(line)

AtPromptWith(line) == pc = "prompt" /\ stdin = line

C9_ColonQuery ==
    IsCat =>
        \A e \in Scanned(last.names) :
            (/\ last.query = strftime(e.dt, DISPLAY_DT_FORMAT)
             /\ \A o \in Scanned(last.names) \ {e} :
                   /\ ~Contains(basename(o.path), strftime(e.dt, DISPLAY_DT_FORMAT))
                   /\ ~Contains(basename(o.path), strftime(e.dt, FILENAME_DT_FORMAT)))
            => (last.done /\ ~last.prompted /\ last.ret = e)

\* --------------------------------------------------------------------------
\* Properties of entry creation
\* --------------------------------------------------------------------------
IsCreate == last # None /\ last.op \in {"new", "log"}

\* C10: when the encoded target name already exists, new and log leave that
\* file's content unchanged and still report its path, and new still hands it
\* to the editor; the header is written only when the file did not exist.
C10_NoOverwrite ==
    (IsCreate /\ last.path # None) =>
        /\ last.existed =>
              /\ files[basename(last.path)] = last.before
              /\ last.reported = basename(last.path)
              /\ last.op = "new" => last.editor = last.path
        /\ last.wrote =>
              /\ ~last.existed
              /\ files[basename(last.path)] = Header(last.ts)

\* new on the name of a file holding the user's text: text kept, editor opened
C10_Witness ==
    /\ IsCreate /\ last.op = "new" /\ last.existed
    /\ last.before = UserText
    /\ files[basename(last.path)] = UserText
    /\ last.editor = last.path

\* --------------------------------------------------------------------------
\* Entry operations: rm, mv, cp, bak and rename.  A command resolves its
\* query, asks what it has to ask, and then makes one filesystem call.
\* --------------------------------------------------------------------------
\* the text a file of the given name holds at the start
TextOf(name) == name \o <<"\n">>

OpQueries == {<<>>, <<"a", "b">>, FIRST}

SelectLines == {<<"1">>, <<"2">>, <<"q">>, <<"a", "b">>}

\* lines typed at 'New filename': default, blank, two names
NameLines == {<<>>, <<" ">>, make_filename(T1, Ab), NotesTxt}

\* lines typed at 'New subject': default, blank, two subjects
SubjectLines == {<<>>, <<" ">>, <<" ", "A", "b", " ">>, Cd}

ConfirmLines == {<<>>, <<"y">>, <<" ", "Y", " ">>, <<"n">>, <<"y", "e", "s">>}

\* Confirm.ask(..., default): y or n in any letter case, the default on an
\* empty line, and the question again on anything else
ConfirmAsk(line, default) ==
    IF line = <<>> THEN [kind |-> "answer", value |-> default]
    ELSE IF Lower(Strip(line)) = <<"y">> THEN [kind |-> "answer", value |-> TRUE]
    ELSE IF Lower(Strip(line)) = <<"n">> THEN [kind |-> "answer", value |-> FALSE]
    ELSE [kind |-> "again"]

\* the directory without the file name
Without(dir, name) == [n \in DOMAIN dir \ {name} |-> dir[n]]

Ok(dir) == [files |-> dir, error |-> FALSE, raised |-> FALSE]

\* an OSError raised by the call, the directory untouched
OSError(dir) == [files |-> dir, error |-> TRUE, raised |-> TRUE]

os_remove(dir, name) ==
    IF name \in DOMAIN dir THEN Ok(Without(dir, name)) ELSE OSError(dir)

\* os.replace: the target, if any, is replaced silently
os_replace(dir, src, dst) ==
    IF src \notin DOMAIN dir THEN OSError(dir)
    ELSE Ok(Put(Without(dir, src), dst, dir[src]))

\* shutil.copy2: opens the source first; SameFileError when both are one file
copy2(dir, src, dst) ==
    IF src \notin DOMAIN dir THEN OSError(dir)
    ELSE IF src = dst THEN OSError(dir)
    ELSE Ok(Put(dir, dst, dir[src]))

\* the filesystem call of each command
fs_call(op, dir, src, dst) ==
    IF op = "rm" THEN os_remove(dir, src)
    ELSE IF op \in {"mv", "rename"} THEN os_replace(dir, src, dst)
    ELSE copy2(dir, src, dst)

try_fs_call_uncaught(op, dir, src, dst) ==
    fs_call(op, dir, src, dst)

\* try: <call> except OSError as ex: console.print(...)
try_fs_call(op, dir, src, dst) ==
    Bind(fs_call(op, dir, src, dst), LAMBDA r :
        [files |-> r.files, error |-> r.error, raised |-> FALSE])

needs_confirm_rm_only(op, dir, target) ==
    op = "rm"

\* whether the command asks before its filesystem call: rm always, the
\* others when os.path.exists(new_path)
needs_confirm(op, dir, target) ==
    op = "rm" \/ target \in DOMAIN dir

rename_target_same_prefix(e, new_subject) ==
    SubSeq(basename(e.path), 1, FILENAME_DT_LEN)
    \o (IF new_subject = <<>> THEN TXT ELSE <<" ">> \o new_subject \o TXT)

\* new_filename of _cmd_rename
rename_target(e, new_subject) ==
    strftime(e.dt, FILENAME_DT_FORMAT)
    \o (IF new_subject = <<>> THEN TXT ELSE <<" ">> \o new_subject \o TXT)

\* how many commands the session has run since the last create
Count(rec) == IF rec # None /\ "n" \in DOMAIN rec THEN rec.n ELSE 0

\* the record of a command that has resolved nothing yet
Op(op) ==
    [op |-> op, n |-> Count(last) + 1, start |-> files, menu |-> <<>>, e |-> None,
     subject |-> NoneStr, target |-> NoneStr, asked |-> FALSE,
     confirmed |-> FALSE, pre |-> None, called |-> FALSE, error |-> FALSE,
     raised |-> FALSE, nochange |-> FALSE, stale |-> FALSE, done |-> FALSE]

Goto(where, rec) == [pc |-> where, last |-> rec]

\* the target is known: ask if the command has to, else go on to the call
with_target(rec, target) ==
    IF needs_confirm(rec.op, files, target)
    THEN Goto("confirm", [rec EXCEPT !.target = target, !.asked = TRUE])
    ELSE Goto("act", [rec EXCEPT !.target = target])

\* what each command does with the entry resolve_by_query returned
after_resolve(rec, e) ==
    IF e = None THEN Goto("idle", [rec EXCEPT !.done = TRUE])
    ELSE IF rec.op = "rm" THEN with_target([rec EXCEPT !.e = e], NoneStr)
    ELSE IF rec.op \in {"mv", "cp"} THEN Goto("newname", [rec EXCEPT !.e = e])
    ELSE IF rec.op = "rename" THEN Goto("newsubject", [rec EXCEPT !.e = e])
    ELSE with_target([rec EXCEPT !.e = e], bak_name(basename(e.path)))

\* a copy is made only while the directory has room for it
Fits(rec) ==
    (rec.op \in {"cp", "bak"} /\ rec.target # NoneStr)
        => (rec.target \in DOMAIN files \/ Cardinality(DOMAIN files) < MaxFiles)

\* the start of a command up to its first question
Begin(op, query) ==
    /\ pc = "idle"
    /\ Count(last) < MaxCommands
    /\ \E listings \in {Perms(GlobNames)} :
       \E r \in {resolve_by_query(globbed, query) : globbed \in listings} :
       \E n \in {IF r.kind = "prompt"
                 THEN Goto("select", [Op(op) EXCEPT !.menu = r.menu])
                 ELSE after_resolve(Op(op), r.ret)} :
          /\ Fits(n.last)
          /\ pc' = n.pc
          /\ last' = n.last
    /\ UNCHANGED <<baseExists, files, stdin, cwdFiles>>

cmd_rm == \E query \in OpQueries : Begin("rm", query)

cmd_mv == \E query \in OpQueries : Begin("mv", query)

cmd_cp == \E query \in OpQueries : Begin("cp", query)

cmd_bak == \E query \in OpQueries : Begin("bak", query)

\* rename [query]: no query, or a blank one, selects among all entries
cmd_rename ==
    \E query \in OpQueries \cup {NoneStr, <<" ">>} :
        Begin("rename",
              IF query = NoneStr \/ Strip(query) = <<>> THEN <<>> ELSE query)

\* a line at the selection prompt of pick_from_matches
select_step ==
    /\ pc = "select"
    /\ \E line \in SelectLines :
       \E r \in {prompt_loop(last.menu, line)} :
          /\ r.kind # "again"
          /\ \E n \in {after_resolve(last, r.ret)} :
                /\ Fits(n.last)
                /\ pc' = n.pc
                /\ last' = n.last
    /\ UNCHANGED <<baseExists, files, stdin, cwdFiles>>

\* _prompt_new_filename of mv and cp, and the check for the target
newname_step ==
    /\ pc = "newname"
    /\ \E line \in NameLines :
       \E new_name \in {Strip(PromptAsk(line, basename(last.e.path)))} :
       \E n \in {IF new_name = <<>> THEN Goto("idle", [last EXCEPT !.done = TRUE])
                 ELSE with_target(last, new_name)} :
          /\ Fits(n.last)
          /\ pc' = n.pc
          /\ last' = n.last
    /\ UNCHANGED <<baseExists, files, stdin, cwdFiles>>

\* the 'New subject' prompt of rename, the new name, and the checks on it
newsubject_step ==
    /\ pc = "newsubject"
    /\ \E line \in SubjectLines :
       \E new_subject \in {Strip(PromptAsk(line, last.e.subject))} :
       \E new_filename \in {rename_target(last.e, new_subject)} :
       \E n \in {IF new_filename = basename(last.e.path)
                 THEN Goto("idle", [last EXCEPT !.subject = new_subject,
                                              !.target = new_filename,
                                              !.nochange = TRUE, !.done = TRUE])
                 ELSE with_target([last EXCEPT !.subject = new_subject],
                                  new_filename)} :
          /\ pc' = n.pc
          /\ last' = n.last
    /\ UNCHANGED <<baseExists, files, stdin, cwdFiles>>

\* the answer to Confirm.ask; a refusal ends the command
confirm_step ==
    /\ pc = "confirm"
    /\ \E line \in ConfirmLines :
       \E a \in {ConfirmAsk(line, FALSE)} :
          /\ a.kind = "answer"
          /\ IF a.value
             THEN /\ pc' = "act"
                  /\ last' = [last EXCEPT !.confirmed = TRUE]
             ELSE /\ pc' = "idle"
                  /\ last' = [last EXCEPT !.done = TRUE]
    /\ UNCHANGED <<baseExists, files, stdin, cwdFiles>>

\* the filesystem call inside its try block, and the end of the command
fs_step ==
    /\ pc = "act"
    /\ \E r \in {try_fs_call(last.op, files, basename(last.e.path), last.target)} :
          /\ files' = r.files
          /\ last' = [last EXCEPT !.pre = files, !.called = TRUE,
                                  !.error = r.error, !.raised = r.raised,
                                  !.done = TRUE]
    /\ pc' = "idle"
    /\ UNCHANGED <<baseExists, stdin, cwdFiles>>

\* another program removes the selected entry's file, or moves it away,
\* while the command is between its resolution and its filesystem call
outside_step ==
    /\ pc \in {"newname", "newsubject", "confirm", "act"}
    /\ ~last.stale
    /\ basename(last.e.path) \in DOMAIN files
    /\ \/ files' = Without(files, basename(last.e.path))
       \/ /\ Gone \notin DOMAIN files
          /\ files' = Put(Without(files, basename(last.e.path)), Gone,
                          files[basename(last.e.path)])
    /\ last' = [last EXCEPT !.stale = TRUE]
    /\ UNCHANGED <<baseExists, pc, stdin, cwdFiles>>

OpsInit ==
    /\ \E S \in SUBSET InitialNames :
          /\ Cardinality(S) <= MaxFiles
          /\ files = [n \in S |-> TextOf(n)]
    /\ baseExists = TRUE
    /\ pc = "idle"
    /\ stdin = NoneStr
    /\ last = None
    /\ cwdFiles = [n \in {} |-> <<>>]

InitOps == OpsInit /\ CodecIdle /\ DirIdle

OpsNext ==
    \/ cmd_rm /\ UNCHANGED <<codecVars, dirVars>>
    \/ cmd_mv /\ UNCHANGED <<codecVars, dirVars>>
    \/ cmd_cp /\ UNCHANGED <<codecVars, dirVars>>
    \/ cmd_bak /\ UNCHANGED <<codecVars, dirVars>>
    \/ cmd_rename /\ UNCHANGED <<codecVars, dirVars>>
    \/ select_step /\ UNCHANGED <<codecVars, dirVars>>
    \/ newname_step /\ UNCHANGED <<codecVars, dirVars>>
    \/ newsubject_step /\ UNCHANGED <<codecVars, dirVars>>
    \/ confirm_step /\ UNCHANGED <<codecVars, dirVars>>
    \/ fs_step /\ UNCHANGED <<codecVars, dirVars>>

SpecOps == InitOps /\ [][OpsNext]_vars

RaceNext ==
    \/ cmd_rm /\ UNCHANGED <<codecVars, dirVars>>
    \/ cmd_mv /\ UNCHANGED <<codecVars, dirVars>>
    \/ cmd_cp /\ UNCHANGED <<codecVars, dirVars>>
    \/ cmd_bak /\ UNCHANGED <<codecVars, dirVars>>
    \/ cmd_rename /\ UNCHANGED <<codecVars, dirVars>>
    \/ select_step /\ UNCHANGED <<codecVars, dirVars>>
    \/ newname_step /\ UNCHANGED <<codecVars, dirVars>>
    \/ newsubject_step /\ UNCHANGED <<codecVars, dirVars>>
    \/ confirm_step /\ UNCHANGED <<codecVars, dirVars>>
    \/ fs_step /\ UNCHANGED <<codecVars, dirVars>>
    \/ outside_step /\ UNCHANGED <<codecVars, dirVars>>

SpecRace == InitOps /\ [][RaceNext]_vars

\* creating entries and renaming their subjects in one notebook
NotesNext ==
    \/ cmd_new /\ UNCHANGED <<codecVars, dirVars, cwdFiles>>
    \/ cmd_log /\ UNCHANGED <<codecVars, dirVars, cwdFiles>>
    \/ cmd_rename /\ UNCHANGED <<codecVars, dirVars>>
    \/ select_step /\ UNCHANGED <<codecVars, dirVars>>
    \/ newsubject_step /\ UNCHANGED <<codecVars, dirVars>>
    \/ confirm_step /\ UNCHANGED <<codecVars, dirVars>>
    \/ fs_step /\ UNCHANGED <<codecVars, dirVars>>

SpecNotes == Init /\ [][NotesNext]_vars

\* --------------------------------------------------------------------------
\* Properties of the entry operations
\* --------------------------------------------------------------------------
IsOp(ops) == last # None /\ last.op \in ops

\* the rename has read the new subject
Renaming == IsOp({"rename"}) /\ last.subject # NoneStr

Destructive == {"rm", "mv", "rename", "cp", "bak"}

\* the file x of the directory at the start of the command is no longer
\* there, or no longer holds what it held
Lost(x) == x \notin DOMAIN files \/ files[x] # last.start[x]

\* x is the entry mv or rename moved: its content is now under the new name,
\* which no file had before
Relocated(x) ==
    /\ last.op \in {"mv", "rename"}
    /\ x = basename(last.e.path)
    /\ last.target \notin DOMAIN last.start
    /\ last.target \in DOMAIN files
    /\ files[last.target] = last.start[x]

\* C12: in rm, mv, rename, cp and bak, a file that exists when the command
\* starts is deleted or has its content replaced only after the user has
\* answered the confirmation with yes (moving an entry to a name no file had
\* is not a deletion: its content is kept under the new name); and when the
\* confirmation is declined, the directory and every file's content are as
\* they were.
C12_Confirm ==
    IsOp(Destructive) =>
        /\ \A x \in DOMAIN last.start :
              Lost(x) => (last.confirmed \/ Relocated(x))
        /\ (last.asked /\ last.done /\ ~last.confirmed) => files = last.start
        /\ last.confirmed => last.asked

\* cp onto the name of another file, confirmed: the other file was replaced
C12_Witness ==
    /\ IsOp({"cp"}) /\ last.asked /\ last.confirmed /\ last.called
    /\ last.target # basename(last.e.path)
    /\ last.target \in DOMAIN last.start
    /\ files[last.target] = last.start[basename(last.e.path)]
    /\ files[last.target] # last.start[last.target]

\* --------------------------------------------------------------------------
\* dump: all entries, sorted, written one after another
\* --------------------------------------------------------------------------
\* most files of a notebook that is dumped
MaxDumpFiles == 3

NL == <<"\n">>

\* entry contents: empty, no final newline, one line, a line and a blank line
DumpTexts == {<<>>, <<"a">>, <<"a", "\n">>, <<"a", "\n", "\n">>}

\* names in the dumped notebook; three of them carry the same timestamp
DumpNames ==
    {make_filename(T1, Ab), make_filename(T2, Ab), DisplayName(T2, Ab),
     make_filename(T2, Cd), make_filename(T3, Ab), NotesTxt}

sep_line == [i \in 1..80 |-> "-"]

\* the state of the loop: what was written, which positions of it hold a
\* newline the loop added between files, and prev_ended_nl
DumpStart == [out |-> <<>>, glue |-> {}, prev_ended_nl |-> TRUE]

\* one pass of the loop for the i-th entry (counted from 1)
dump_write(acc, i, content, with_separator) ==
    Bind(acc, LAMBDA a :
    Bind(IF i > 1 /\ ~a.prev_ended_nl THEN NL ELSE <<>>, LAMBDA nl :
    Bind(IF i > 1 /\ with_separator THEN sep_line \o NL ELSE <<>>, LAMBDA sep :
        [out |-> a.out \o nl \o sep \o content,
         glue |-> a.glue
                  \cup (IF nl # <<>> THEN {Len(a.out) + 1} ELSE {})
                  \cup (IF sep # <<>> THEN {Len(a.out) + Len(nl) + Len(sep)}
                        ELSE {}),
         prev_ended_nl |-> EndsWith(content, NL)])))

RECURSIVE dump_loop(_, _, _, _)
dump_loop(entries, i, acc, with_separator) ==
    IF i > Len(entries) THEN acc
    ELSE dump_loop(entries, i + 1,
                   dump_write(acc, i, files[basename(entries[i].path)],
                              with_separator),
                   with_separator)

\* dump [--desc] [--sep]
cmd_dump ==
    /\ pc = "idle"
    /\ last = None
    /\ \E listings \in {Perms(GlobNames)}, ascending \in BOOLEAN,
          with_separator \in BOOLEAN :
       \E scanned \in {scan_entries(globbed) : globbed \in listings} :
       \E entries \in {sort_entries(scanned, ascending)} :
       \E w \in {dump_loop(entries, 1, DumpStart, with_separator)} :
          last' = [op |-> "dump", ascending |-> ascending,
                   with_separator |-> with_separator, scanned |-> scanned,
                   entries |-> entries, out |-> w.out, glue |-> w.glue]
    /\ UNCHANGED <<baseExists, files, pc, stdin, cwdFiles>>

\* ls: the names of the entries, oldest first
cmd_ls ==
    /\ pc = "idle"
    /\ last = None
    /\ \E listings \in {Perms(GlobNames)} :
       \E scanned \in {scan_entries(globbed) : globbed \in listings} :
       \E entries \in {sort_entries(scanned, TRUE)} :
          last' = [op |-> "ls", ascending |-> TRUE, scanned |-> scanned,
                   entries |-> entries,
                   out |-> [i \in 1..Len(entries) |-> basename(entries[i].path)]]
    /\ UNCHANGED <<baseExists, files, pc, stdin, cwdFiles>>

DumpInit ==
    /\ \E S \in SUBSET DumpNames :
          /\ Cardinality(S) <= MaxDumpFiles
          /\ files \in [S -> DumpTexts]
    /\ baseExists = TRUE
    /\ pc = "idle"
    /\ stdin = NoneStr
    /\ last = None
    /\ cwdFiles = [n \in {} |-> <<>>]

InitDump == DumpInit /\ CodecIdle /\ DirIdle

DumpNext ==
    \/ cmd_dump /\ UNCHANGED <<codecVars, dirVars>>
    \/ cmd_ls /\ UNCHANGED <<codecVars, dirVars>>

SpecDump == InitDump /\ [][DumpNext]_vars

IsDump == last # None /\ last.op = "dump"

\* the line ending at position p of the output is blank, and so is the next
BlankPair(out, p) ==
    /\ p + 1 <= Len(out)
    /\ out[p] = "\n" /\ out[p + 1] = "\n"
    /\ (p = 1 \/ out[p - 1] = "\n")

\* C13: the dump output has no two consecutive blank lines of which one is
\* ended by a newline that dump wrote between two files, i.e. none that the
\* concatenation made and that no file's own content holds.
C13_DumpBoundaries ==
    IsDump =>
        \A p \in 1..Len(last.out) :
            BlankPair(last.out, p) => (p \notin last.glue /\ (p + 1) \notin last.glue)

\* --------------------------------------------------------------------------
\* Properties of sort_entries, on the lists dump and ls sort
\* --------------------------------------------------------------------------
IsSorted == last # None /\ last.op \in {"dump", "ls"}

\* where the entry stands in the scan order (entries differ in their paths)
ScanIndex(e) == CHOOSE k \in 1..Len(last.scanned) : last.scanned[k] = e

Reverse(seq) == [i \in 1..Len(seq) |-> seq[Len(seq) + 1 - i]]

DistinctTimes(es) ==
    \A i, j \in 1..Len(es) : i # j => es[i].dt # es[j].dt

\* C14: the sorted list holds the scanned entries, ordered by timestamp in
\* the requested direction, entries with equal timestamps in their scan
\* order; and when all timestamps differ, sorting descending gives exactly
\* the reverse of sorting ascending.
C14_Sort ==
    IsSorted =>
        /\ Len(last.entries) = Len(last.scanned)
        /\ Range(last.entries) = Range(last.scanned)
        /\ \A i, j \in 1..Len(last.entries) :
              i < j =>
                 /\ IF last.ascending
                    THEN ~DtLess(last.entries[j].dt, last.entries[i].dt)
                    ELSE ~DtLess(last.entries[i].dt, last.entries[j].dt)
                 /\ last.entries[i].dt = last.entries[j].dt
                       => ScanIndex(last.entries[i]) < ScanIndex(last.entries[j])
        /\ DistinctTimes(last.scanned)
              => sort_entries(last.scanned, FALSE)
                    = Reverse(sort_entries(last.scanned, TRUE))

\* a descending dump of three entries scanned oldest first, the two newer
\* ones with one timestamp: they lead the result in their scan order
C14_Witness ==
    /\ IsDump /\ ~last.ascending
    /\ Len(last.scanned) = 3
    /\ DtLess(last.scanned[1].dt, last.scanned[2].dt)
    /\ last.scanned[2].dt = last.scanned[3].dt
    /\ last.entries = <<last.scanned[2], last.scanned[3], last.scanned[1]>>

\* --------------------------------------------------------------------------
\* Properties of the operations when the selected file vanishes meanwhile
\* --------------------------------------------------------------------------
\* the command made its filesystem call after another program had removed
\* or renamed the selected entry's file
ActedOnStale ==
    /\ IsOp(Destructive) /\ last.called /\ last.stale
    /\ basename(last.e.path) \notin DOMAIN last.pre

\* C15: when the selected entry's file was removed or renamed by another
\* program between the resolution of the query and the filesystem call, rm,
\* mv, rename, cp and bak report the error of that call, make no second
\* call, leave every file as it was at the call, and return normally.
C15_StaleEntry ==
    /\ ActedOnStale =>
          /\ last.error
          /\ ~last.raised
          /\ files = last.pre
          /\ last.done /\ pc = "idle"
    /\ (IsOp(Destructive) /\ last.stale /\ last.called) => ActedOnStale

\* cp onto an existing file, confirmed, after the source had been moved away:
\* the error was reported and the existing file kept its content
C15_Witness ==
    /\ ActedOnStale /\ last.op = "cp" /\ last.confirmed
    /\ last.error
    /\ Gone \in DOMAIN files
    /\ last.target \in DOMAIN files
    /\ files[last.target] = last.start[last.target]

\* --------------------------------------------------------------------------
\* The editor: what open_in_editor launches and what config reports
\* --------------------------------------------------------------------------
DEFAULT_EDITOR == <<"n", "a", "n", "o">>

\* values of EDITOR and VISUAL: unset, empty, blank, a program, a program
\* in blanks, a program with an argument, another program
EditorValues ==
    {NoneStr, <<>>, <<" ">>, <<"v", "i">>, <<" ", "v", "i", " ">>,
     <<"e", " ", "-", "w">>, <<"e", "d">>}

\* os.environ.get(key, default)
environ_get(key, default) ==
    IF environ[key] = NoneStr THEN default ELSE environ[key]

\* x or y, for strings
OrStr(x, y) == IF x = NoneStr \/ x = <<>> THEN y ELSE x

\* shlex.split of a text without quotes: its blank-separated words
RECURSIVE shlex_split(_)
shlex_split(s) ==
    Bind(LStrip(s), LAMBDA t :
        IF t = <<>> THEN <<>>
        ELSE Bind(CHOOSE k \in 1..(Len(t) + 1) :
                      /\ k = Len(t) + 1 \/ t[k] = " "
                      /\ \A j \in 1..(k - 1) : t[j] # " ", LAMBDA k :
                 <<SubSeq(t, 1, k - 1)>> \o shlex_split(SubSeq(t, k, Len(t)))))

\* open_in_editor up to subprocess.call: the editor chosen and the command
open_in_editor(path) ==
    Bind(OrStr(Strip(environ_get("EDITOR", DEFAULT_EDITOR)), DEFAULT_EDITOR),
         LAMBDA editor : [editor |-> editor, cmd |-> shlex_split(editor) \o <<path>>])

\* _editor_info without the lookup of the program on PATH
editor_info ==
    Bind(OrStr(Strip(OrStr(environ_get("EDITOR", NoneStr), <<>>)), NoneStr),
         LAMBDA env_editor :
    Bind(OrStr(Strip(OrStr(environ_get("VISUAL", NoneStr), <<>>)), NoneStr),
         LAMBDA env_visual :
        [EDITOR_raw |-> env_editor,
         VISUAL_raw |-> env_visual,
         effective_editor |-> Strip(OrStr(env_editor, OrStr(env_visual, DEFAULT_EDITOR))),
         editor_source |-> IF env_editor # NoneStr THEN "EDITOR"
                           ELSE IF env_visual # NoneStr THEN "VISUAL"
                           ELSE "DEFAULT"]))

EditedPath == join(BASE, make_filename(T1, Ab))

\* edit: the editor is launched on the entry; its status is the exit status
OpenInEditor ==
    /\ pc = "idle"
    /\ last = None
    /\ \E r \in {open_in_editor(EditedPath)}, rc \in {0, 1} :
          last' = [op |-> "edit", editor |-> r.editor, cmd |-> r.cmd, rc |-> rc]
    /\ UNCHANGED <<environ, dot, d_call, d_result, baseExists, files, pc, stdin,
                   cwdFiles>>

\* config: the editor settings are reported
EditorInfo ==
    /\ pc = "idle"
    /\ last = None
    /\ \E on_path \in BOOLEAN :
          last' = [op |-> "config", info |-> editor_info, editor_on_path |-> on_path]
    /\ UNCHANGED <<environ, dot, d_call, d_result, baseExists, files, pc, stdin,
                   cwdFiles>>

EditorInit ==
    /\ environ \in [{"EDITOR", "VISUAL"} -> EditorValues]
    /\ dot = "absent"
    /\ d_call = None
    /\ d_result = None
    /\ baseExists = TRUE
    /\ files = [n \in {make_filename(T1, Ab)} |-> UserText]
    /\ pc = "idle"
    /\ stdin = NoneStr
    /\ last = None
    /\ cwdFiles = [n \in {} |-> <<>>]

InitEditor == EditorInit /\ CodecIdle

EditorNext ==
    \/ OpenInEditor /\ UNCHANGED codecVars
    \/ EditorInfo /\ UNCHANGED codecVars

SpecEditor == InitEditor /\ [][EditorNext]_vars

\* the variable is set and not blank
NonBlank(key) == environ[key] # NoneStr /\ Strip(environ[key]) # <<>>

\* C16: the editor open_in_editor launches is EDITOR when that is set and
\* not blank, otherwise VISUAL when that is set and not blank, otherwise the
\* default; and it is the editor config reports as effective_editor.
C16_EditorSelection ==
    (last # None /\ last.op = "edit") =>
        /\ last.editor = (IF NonBlank("EDITOR") THEN Strip(environ["EDITOR"])
                          ELSE IF NonBlank("VISUAL") THEN Strip(environ["VISUAL"])
                          ELSE DEFAULT_EDITOR)
        /\ last.editor = editor_info.effective_editor

\* --------------------------------------------------------------------------
\* Properties of a notebook that is written by new, log and rename
\* --------------------------------------------------------------------------
\* the file the last command wrote: the name and the timestamp and subject
\* it was written for; None if the command wrote none
Written ==
    IF IsCreate /\ last.wrote
    THEN [name |-> basename(last.path), dt |-> last.ts, subject |-> NoneStr]
    ELSE IF Renaming /\ last.called /\ ~last.error
    THEN [name |-> last.target, dt |-> last.e.dt, subject |-> last.subject]
    ELSE None

\* C17: the file a create or a subject-only rename has just written is in
\* the directory and the scan returns it as an entry with the timestamp (and,
\* for rename, the subject) it was written with, an empty subject included.
C17_StayVisible ==
    Written # None =>
        /\ Written.name \in DOMAIN files
        /\ \E e \in Scanned(DOMAIN files) :
              /\ basename(e.path) = Written.name
              /\ e.dt = Written.dt
              /\ Written.subject # NoneStr => e.subject = Written.subject

\* --------------------------------------------------------------------------
\* Migration: entry files of the working directory are moved into the
\* notebook directory (migrate) or into CWD/.timepad (init --migrate).
\* files is the directory the command moves into.
\* --------------------------------------------------------------------------
MigrateNames ==
    {make_filename(T1, Ab), make_filename(T2, Ab), DisplayName(T2, Ab),
     make_filename(T1, <<>>), NotesTxt}

\* what a file of the working directory holds, and one of the destination
CwdText == <<"c", "\n">>
DestText == <<"d", "\n">>

\* the working directory and CWD/.timepad, as directory names
CwdDir == "w"
DotDir == "w/.timepad"

dirname(path) == path.dir

\* _find_timepad_files(cwd), given the list os.listdir produced (cwdFiles
\* holds the regular files only): the paths parse_entry accepts
find_timepad_files(listed) ==
    Bind(SelectSeq(listed, LAMBDA n : n \in DOMAIN cwdFiles /\ ParseOf[n] # None),
         LAMBDA names : [i \in 1..Len(names) |-> join(CwdDir, names[i])])

\* shutil.move of a file onto a file name: a rename, which replaces the
\* target if there is one
shutil_move(dirs, name) ==
    [cwd |-> Without(dirs.cwd, name),
     dest |-> Put(dirs.dest, name, dirs.cwd[name]),
     migrated |-> Append(dirs.migrated, name)]

\* the loop over the found files: those not already in the destination
\* directory are moved into it
RECURSIVE move_found(_, _, _)
move_found(found, dest_dir, dirs) ==
    IF found = <<>> THEN dirs
    ELSE move_found(Tail(found), dest_dir,
                    Bind(dirs, LAMBDA d :
                        IF dirname(Head(found)) # dest_dir
                        THEN shutil_move(d, basename(Head(found)))
                        ELSE d))

\* the record of a migration command
Migrated(op, r, created) ==
    [op |-> op, kind |-> "ok", dest_before |-> files, cwd_before |-> cwdFiles,
     was_created |-> created, migrated |-> r.migrated, count |-> Len(r.migrated)]

\* migrate: needs the notebook directory; moves the found files into it
cmd_migrate ==
    /\ pc = "idle"
    /\ last = None
    /\ IF ~baseExists
       THEN /\ last' = [op |-> "migrate", kind |-> "exit", status |-> 1]
            /\ UNCHANGED <<files, cwdFiles>>
       ELSE \E listed \in Perms(DOMAIN cwdFiles) :
            \E r \in {move_found(find_timepad_files(listed), BASE,
                                 [cwd |-> cwdFiles, dest |-> files, migrated |-> <<>>])} :
               /\ files' = r.dest
               /\ cwdFiles' = r.cwd
               /\ last' = Migrated("migrate", r, FALSE)
    /\ UNCHANGED <<environ, dot, d_call, d_result, baseExists, pc, stdin>>

\* init [-c] [--migrate]: _init_timepad_dir with its migration loop
cmd_init ==
    /\ pc = "idle"
    /\ last = None
    /\ \E ignore_env \in BOOLEAN, migrate \in BOOLEAN :
       \E i \in {init_timepad_dir(~ignore_env)} :
          IF i.kind # "ok"
          THEN /\ last' = [op |-> "init", kind |-> i.kind, status |-> 1]
               /\ UNCHANGED <<files, cwdFiles, dot>>
          ELSE \E listed \in Perms(DOMAIN cwdFiles) :
               \E r \in {move_found(IF migrate THEN find_timepad_files(listed)
                                    ELSE <<>>, DotDir,
                                    [cwd |-> cwdFiles, dest |-> files,
                                     migrated |-> <<>>])} :
                  /\ files' = r.dest
                  /\ cwdFiles' = r.cwd
                  /\ dot' = i.dot
                  /\ last' = Migrated("init", r, i.ret[2])
    /\ UNCHANGED <<environ, d_call, d_result, baseExists, pc, stdin>>

MigrateInit ==
    /\ environ \in [TIMEPAD : {None, Path(FALSE, <<"nb">>)}, LOG_DIR : {None}]
    /\ dot \in {"absent", "file", "dir"}
    /\ baseExists \in BOOLEAN
    /\ d_call = None
    /\ d_result = None
    /\ \E S \in SUBSET MigrateNames :
          /\ Cardinality(S) <= MaxFiles
          /\ cwdFiles = [n \in S |-> CwdText]
    /\ \E D \in SUBSET MigrateNames :
          /\ Cardinality(D) <= MaxFiles
          /\ D # {} => (dot = "dir" /\ baseExists)
          /\ files = [n \in D |-> DestText]
    /\ pc = "idle"
    /\ stdin = NoneStr
    /\ last = None

InitMigrate == MigrateInit /\ CodecIdle

MigrateNext ==
    \/ cmd_migrate /\ UNCHANGED codecVars
    \/ cmd_init /\ UNCHANGED codecVars

SpecMigrate == InitMigrate /\ [][MigrateNext]_vars

IsMigration ==
    last # None /\ last.op \in {"migrate", "init"} /\ last.kind = "ok"

\* C18: migrate and init --migrate leave every file that was in the
\* destination directory in place with its content, also when the working
\* directory holds a decodable file of the same name; and the reported count
\* is the number of files that left the working directory.
C18_MigrationKeeps ==
    IsMigration =>
        /\ \A n \in DOMAIN last.dest_before :
              n \in DOMAIN files /\ files[n] = last.dest_before[n]
        /\ last.count
              = Cardinality({n \in DOMAIN last.cwd_before : n \notin DOMAIN cwdFiles})
====
